---- MODULE Spec2Model ----
(***************************************************************************)
(* A model of internalDataReader (data_reader.go): the TELNET data         *)
(* decoder.  Read is modelled statement by statement: a call on the        *)
(* bufio.Reader that may read from the transport (ReadByte, Peek,          *)
(* Discard), a write on the transport and the construction of the zlib     *)
(* reader are steps of their own, so that the chunking of the transport,   *)
(* a failing pull and a failing write can fall between any two of them.    *)
(***************************************************************************)
EXTENDS Integers, Sequences, FiniteSets, TLC

(* ------------------------------------------------------------------ *)
(* Wire constants (data_reader.go, const block)                        *)
(* ------------------------------------------------------------------ *)
IAC == 255
GA == 249
SB == 250
SE == 240
WILL == 251
WONT == 252
DO == 253
DONT == 254
OPT_COMPRESS2 == 86

(* ------------------------------------------------------------------ *)
(* Bounds of the model                                                  *)
(* ------------------------------------------------------------------ *)
\* The longest caller buffer handed to Read.
MaxBuf == 2
\* The number of items (data bytes, command sequences) the peer sends.
MaxItems == 2
\* The number of transport failures (a failing read or write) in one run.
MaxFaults == 1

(* ------------------------------------------------------------------ *)
(* Sequences of bytes                                                   *)
(* ------------------------------------------------------------------ *)
Take(s, k) == SubSeq(s, 1, k)
Drop(s, k) == SubSeq(s, k + 1, Len(s))

RECURSIVE Concat(_)
Concat(ss) == IF ss = <<>> THEN <<>> ELSE Head(ss) \o Concat(Tail(ss))

IsPrefix(s, t) == Len(s) <= Len(t) /\ Take(t, Len(s)) = s
IsSuffix(s, t) == Len(s) <= Len(t) /\ Drop(t, Len(t) - Len(s)) = s

(* ------------------------------------------------------------------ *)
(* The peer: what it may put on the transport                           *)
(* ------------------------------------------------------------------ *)
\* The two-byte header of a zlib stream (CMF = 0x78, FLG = 0x9c).
ZHeader == <<120, 156>>

\* The stand-in codec of the compressed body: one compressed byte yields
\* one decompressed byte, and no byte decodes to itself.
Inflate(c) == (c + 128) % 256

RECURSIVE InflateAll(_)
InflateAll(s) == IF s = <<>> THEN <<>> ELSE <<Inflate(Head(s))>> \o InflateAll(Tail(s))

\* What the peer sends, item by item: data bytes, an escaped 255, the
\* negotiation commands, a sub-negotiation, a byte that is no command after
\* IAC, the compression announcement, and the start of a zlib stream (one
\* whose two body bytes read as a header again, so that a reader starting
\* two bytes late accepts it too).
Items ==
    { <<10>>, <<20>>,
      <<IAC, IAC>>,
      <<IAC, DO, 1>>,
      <<IAC, WILL, OPT_COMPRESS2>>, <<IAC, WILL, 1>>, <<IAC, WONT, 1>>,
      <<IAC, SB, 1, IAC, SE>>,
      <<IAC, SE>>, <<IAC, GA>>,
      <<IAC, 1>>,
      <<IAC, SB, OPT_COMPRESS2, IAC, SE>>,
      ZHeader \o ZHeader }

Streams == { Concat(ss) : ss \in UNION { [1..k -> Items] : k \in 0..MaxItems } }

\* A second peer, for the claims on the position of 86: a sub-negotiation
\* with an 86 in its payload, and a zlib stream whose body is the byte that
\* inflates to 86 followed by twice the bytes of a header (a second reader
\* started after its first five bytes accepts the rest).
ItemsExt ==
    { <<10>>,
      <<IAC, IAC>>,
      <<IAC, DO, OPT_COMPRESS2>>,
      <<IAC, WILL, 1>>,
      <<IAC, SB, 1, OPT_COMPRESS2, IAC, SE>>,
      <<IAC, SE>>, <<IAC, GA>>,
      <<IAC, 1>>,
      <<IAC, SB, OPT_COMPRESS2, IAC, SE>>,
      ZHeader \o <<214>> \o ZHeader \o ZHeader }

StreamsExt == { Concat(ss) : ss \in UNION { [1..k -> ItemsExt] : k \in 0..MaxItems } }

\* A third peer, for the claim on the commands that are discarded: DO and
\* DONT with the option bytes 86 and 255, SE and GA, among data, an offer,
\* a byte that is no command and an announcement.
ItemsCmd ==
    { <<10>>,
      <<IAC, IAC>>,
      <<IAC, DO, OPT_COMPRESS2>>, <<IAC, DONT, IAC>>,
      <<IAC, WILL, 1>>,
      <<IAC, SE>>, <<IAC, GA>>,
      <<IAC, 1>>,
      <<IAC, SB, OPT_COMPRESS2, IAC, SE>> }

StreamsCmd == { Concat(ss) : ss \in UNION { [1..k -> ItemsCmd] : k \in 0..MaxItems } }

VARIABLES
    stream,     \* everything the peer sends on the transport, in order
    wrapped,    \* r.wrapped: rd, the bytes not yet read from the transport;
                \* wr, the bytes written to it; faults, the failures left
    buffered,   \* r.buffered: buf, its buffered bytes; src, what it reads
                \* from ("raw" transport or "zlib" reader); zbuf, the raw
                \* bytes the zlib reader holds in its own buffer; zerr,
                \* the error the zlib reader has met
    pc,         \* the statement of Read the caller is at ("idle": no call)
    n,          \* Read's result n
    room,       \* len(p): the free part of the caller's buffer
    err,        \* Read's result err ("none" before the first call)
    out,        \* every byte written into the caller's buffers, in order
    zout,       \* every byte the zlib reader has produced
    errSeen,    \* an earlier call returned an error
    start       \* the number of bytes consumed before the call began

vars == <<stream, wrapped, buffered, pc, n, room, err, out, zout, errSeen, start>>

(* ------------------------------------------------------------------ *)
(* The transport (r.wrapped, an io.ReadWriter)                          *)
(* ------------------------------------------------------------------ *)
\* One Read on the transport: it fails, or reports the end of the stream,
\* or hands over a chunk of at least one of the bytes still to come; where
\* the chunk ends is the transport's choice.
TransportRead(w) ==
    { [w |-> [w EXCEPT !.faults = @ - 1], bytes |-> <<>>, err |-> "ErrIO"] :
          x \in IF w.faults > 0 THEN {0} ELSE {} }
    \cup
    IF w.rd = <<>>
    THEN { [w |-> w, bytes |-> <<>>, err |-> "EOF"] }
    ELSE { [w |-> [w EXCEPT !.rd = Drop(@, k)], bytes |-> Take(w.rd, k), err |-> "nil"] :
               k \in 1..Len(w.rd) }

\* One Write on the transport: all of the bytes, or a failure.
TransportWrite(w, bytes) ==
    { [w |-> [w EXCEPT !.faults = @ - 1], err |-> "ErrWrite"] :
          x \in IF w.faults > 0 THEN {0} ELSE {} }
    \cup
    { [w |-> [w EXCEPT !.wr = @ \o bytes], err |-> "nil"] }

(* ------------------------------------------------------------------ *)
(* The zlib reader (compress/zlib, over r.wrapped)                      *)
(* ------------------------------------------------------------------ *)
\* zlib's check of the two header bytes: method deflate, a window of at
\* most 32K, the check bits, and no preset dictionary.
HeaderError(cmf, flg) ==
    IF cmf % 16 # 8 \/ cmf \div 16 > 7 \/ (cmf * 256 + flg) % 31 # 0
    THEN "ErrHeader"
    ELSE IF (flg \div 32) % 2 = 1 THEN "ErrDictionary" ELSE "nil"

\* io.ReadFull of the header through the zlib reader's own bufio.Reader:
\* reads on the transport until two bytes are there; what a read brings
\* beyond them stays in that reader's buffer.
RECURSIVE ReadHeader(_, _)
ReadHeader(acc, w) ==
    IF Len(acc) >= 2
    THEN { [acc |-> acc, w |-> w, err |-> "nil"] }
    ELSE UNION { IF o.err = "nil"
                 THEN ReadHeader(acc \o o.bytes, o.w)
                 ELSE { [acc |-> acc, w |-> o.w,
                         err |-> IF o.err = "EOF" THEN "ErrUnexpectedEOF" ELSE o.err] } :
                 o \in TransportRead(w) }

\* zlib.NewReader(r.wrapped): zbuf is what the new reader holds buffered.
ZlibNewReader(w) ==
    { IF h.err # "nil"
      THEN [zbuf |-> <<>>, w |-> h.w, err |-> h.err]
      ELSE [zbuf |-> Drop(h.acc, 2), w |-> h.w, err |-> HeaderError(h.acc[1], h.acc[2])] :
      h \in ReadHeader(<<>>, w) }

\* One Read on the zlib reader: the decompressed form of the raw bytes it
\* holds, after one read on the transport when it holds none.  An error is
\* kept (zerr): every later Read returns it again.
ZlibRead(b, w) ==
    IF b.zerr # "nil"
    THEN { [b |-> b, w |-> w, bytes |-> <<>>, err |-> b.zerr, zo |-> <<>>] }
    ELSE IF b.zbuf # <<>>
    THEN { [b |-> [b EXCEPT !.zbuf = <<>>], w |-> w, bytes |-> InflateAll(b.zbuf),
            err |-> "nil", zo |-> InflateAll(b.zbuf)] }
    ELSE { [b |-> [b EXCEPT !.zerr = IF o.err = "EOF" THEN "ErrUnexpectedEOF" ELSE o.err],
            w |-> o.w, bytes |-> InflateAll(o.bytes),
            err |-> IF o.err = "EOF" THEN "ErrUnexpectedEOF" ELSE o.err,
            zo |-> InflateAll(o.bytes)] : o \in TransportRead(w) }

(* ------------------------------------------------------------------ *)
(* The buffered source (r.buffered, a bufio.Reader)                     *)
(* ------------------------------------------------------------------ *)
\* bufio's fill: one Read on what the reader wraps, appended to the buffer.
Fill(b, w) ==
    { [b |-> [o.b EXCEPT !.buf = @ \o o.bytes], w |-> o.w, err |-> o.err, zo |-> o.zo] :
      o \in IF b.src = "raw"
            THEN { [b |-> b, w |-> t.w, bytes |-> t.bytes, err |-> t.err, zo |-> <<>>] :
                       t \in TransportRead(w) }
            ELSE ZlibRead(b, w) }

\* r.buffered.Buffered()
Buffered(b) == Len(b.buf)

\* r.buffered.Peek(1): fills when nothing is buffered.
Peek(b, w) ==
    IF Buffered(b) >= 1
    THEN { [b |-> b, w |-> w, err |-> "nil", zo |-> <<>>] }
    ELSE Fill(b, w)

\* r.buffered.ReadByte(): the byte read is `byte`.
ReadByte(b, w) ==
    { [b |-> IF o.err = "nil" THEN [o.b EXCEPT !.buf = Tail(@)] ELSE o.b,
       w |-> o.w, err |-> o.err, zo |-> o.zo,
       byte |-> IF o.err = "nil" THEN Head(o.b.buf) ELSE 0] :
      o \in Peek(b, w) }

\* r.buffered.Discard(k): skips what is buffered and fills for the rest; a
\* failing fill ends it with the bytes skipped so far gone.
RECURSIVE Discard(_, _, _)
Discard(b, w, k) ==
    IF k = 0
    THEN { [b |-> b, w |-> w, err |-> "nil", zo |-> <<>>] }
    ELSE UNION { IF o.err # "nil"
                 THEN { o }
                 ELSE { [d EXCEPT !.zo = o.zo \o @] :
                            d \in Discard([o.b EXCEPT !.buf = Tail(@)], o.w, k - 1) } :
                 o \in Peek(b, w) }

(* ------------------------------------------------------------------ *)
(* internalDataReader                                                   *)
(* ------------------------------------------------------------------ *)
\* newDataReader: a bufio.Reader over the transport, nothing read yet.
Init ==
    /\ stream \in Streams
    /\ wrapped = [rd |-> stream, wr |-> <<>>, faults |-> MaxFaults]
    /\ buffered = [buf |-> <<>>, src |-> "raw", zbuf |-> <<>>, zerr |-> "nil"]
    /\ pc = "idle"
    /\ n = 0
    /\ room = 0
    /\ err = "none"
    /\ out = <<>>
    /\ zout = <<>>
    /\ errSeen = FALSE
    /\ start = 0

\* A variant of the test that forgets n > 0.
BreakCondAnyN(nn, b) == Buffered(b) < 1

\* A variant of the test that never ends the call early.
BreakCondNever(nn, b) == FALSE

\* The test at the top of the loop that ends the call early.
BreakCond(nn, b) == nn > 0 /\ Buffered(b) < 1

\* A variant of handleOption that declines every option.
OptionReplyDecline(opt) == <<IAC, DONT, opt>>

\* handleOption: the reply to an offer of option opt.
OptionReply(opt) ==
    IF opt = OPT_COMPRESS2 THEN <<IAC, DO, opt>> ELSE <<IAC, DONT, opt>>

\* A variant of the switch whose default case is a no-op like GA.
SwitchCaseLenient(x) ==
    CASE x \in {DO, DONT} -> "DO"
      [] x \in {WILL, WONT} -> "WILL"
      [] x = IAC -> "IAC"
      [] x = SB -> "SB"
      [] x = SE -> "SE"
      [] OTHER -> "GA"

\* The case of the switch on the byte peeked after IAC.
SwitchCase(x) ==
    CASE x \in {DO, DONT} -> "DO"
      [] x \in {WILL, WONT} -> "WILL"
      [] x = IAC -> "IAC"
      [] x = SB -> "SB"
      [] x = SE -> "SE"
      [] x = GA -> "GA"
      [] OTHER -> "default"

\* A variant of the IAC case that leaves the second 255 in the source.
EscapeDiscardNone(b, w) == Discard(b, w, 0)

\* The IAC case's Discard(1) of the second 255, after the literal is written.
EscapeDiscard(b, w) == Discard(b, w, 1)

\* A variant that returns n, nil whatever the error.
ReturnNil(e) ==
    /\ pc' = "idle"
    /\ err' = "nil"

\* return n, e
Return(e) ==
    /\ pc' = "idle"
    /\ err' = e

\* The effect of a call on r.buffered: on an error Read returns it at once,
\* otherwise it goes on at statement `next`.
Apply(o, next) ==
    /\ buffered' = o.b
    /\ wrapped' = o.w
    /\ zout' = zout \o o.zo
    /\ IF o.err # "nil" THEN Return(o.err) ELSE pc' = next /\ err' = err

\* The caller calls Read with a buffer of `size` bytes.
Call ==
    /\ pc = "idle"
    /\ \E size \in 0..MaxBuf :
          /\ pc' = "loop"
          /\ n' = 0
          /\ room' = size
    /\ err' = "nil"
    /\ errSeen' = (errSeen \/ err \notin {"none", "nil"})
    /\ start' = Len(stream) - Len(wrapped.rd) - Len(buffered.buf)
    /\ UNCHANGED <<stream, wrapped, buffered, out, zout>>

\* A variant of the loop condition that lets the loop run without room.
LoopCondAlways(r) == TRUE

\* for len(p) > 0
LoopCond(r) == r > 0

\* for len(p) > 0 fails: the buffer is full; return n, nil.
LoopDone ==
    /\ pc = "loop"
    /\ ~LoopCond(room)
    /\ Return("nil")
    /\ UNCHANGED <<stream, start, wrapped, buffered, n, room, out, zout, errSeen>>

\* if n > 0 && r.buffered.Buffered() < 1 { break }; return n, nil.
LoopBreak ==
    /\ pc = "loop"
    /\ LoopCond(room)
    /\ BreakCond(n, buffered)
    /\ Return("nil")
    /\ UNCHANGED <<stream, start, wrapped, buffered, n, room, out, zout, errSeen>>

\* b, err = r.buffered.ReadByte(), and the copy of a data byte.
MainReadByte ==
    /\ pc = "loop"
    /\ LoopCond(room)
    /\ ~BreakCond(n, buffered)
    /\ \E o \in ReadByte(buffered, wrapped) :
          /\ Apply(o, IF o.byte = IAC THEN "peek" ELSE "loop")
          /\ IF o.err = "nil" /\ o.byte # IAC
             THEN out' = Append(out, o.byte) /\ n' = n + 1 /\ room' = room - 1
             ELSE UNCHANGED <<out, n, room>>
    /\ UNCHANGED <<stream, start, errSeen>>

\* peeked, err = r.buffered.Peek(1) after IAC.
MainPeek ==
    /\ pc = "peek"
    /\ \E o \in Peek(buffered, wrapped) : Apply(o, "switch")
    /\ UNCHANGED <<stream, start, n, room, out, errSeen>>

\* A decoder that discards the command byte alone.
DoDontDiscardOne(b, w) == Discard(b, w, 1)

\* r.buffered.Discard(2): the command byte and the option byte.
DoDontDiscard(b, w) == Discard(b, w, 2)

\* case DO, DONT: Discard(2).
CaseDoDont ==
    /\ pc = "switch"
    /\ SwitchCase(Head(buffered.buf)) = "DO"
    /\ \E o \in DoDontDiscard(buffered, wrapped) : Apply(o, "loop")
    /\ UNCHANGED <<stream, start, n, room, out, errSeen>>

\* A decoder that discards the option byte with the command byte.
WillWontDiscardTwo(b, w) == Discard(b, w, 2)

\* r.buffered.Discard(1): the command byte; the option byte stays.
WillWontDiscard(b, w) == Discard(b, w, 1)

\* case WILL, WONT: Discard(1).
CaseWillWont ==
    /\ pc = "switch"
    /\ SwitchCase(Head(buffered.buf)) = "WILL"
    /\ \E o \in WillWontDiscard(buffered, wrapped) : Apply(o, "opt")
    /\ UNCHANGED <<stream, start, n, room, out, errSeen>>

\* opt, err := r.buffered.Peek(1).
PeekOption ==
    /\ pc = "opt"
    /\ \E o \in Peek(buffered, wrapped) : Apply(o, "handle")
    /\ UNCHANGED <<stream, start, n, room, out, errSeen>>

\* err = r.handleOption(opt[0]): the reply is written to the transport.
HandleOption ==
    /\ pc = "handle"
    /\ \E o \in TransportWrite(wrapped, OptionReply(Head(buffered.buf))) :
          /\ wrapped' = o.w
          /\ IF o.err # "nil" THEN Return(o.err) ELSE pc' = "optdone" /\ err' = err
    /\ UNCHANGED <<stream, start, buffered, n, room, out, zout, errSeen>>

\* Discard(1) of the option byte.
DiscardOption ==
    /\ pc = "optdone"
    /\ \E o \in Discard(buffered, wrapped, 1) : Apply(o, "loop")
    /\ UNCHANGED <<stream, start, n, room, out, errSeen>>

\* case IAC: p[0] = IAC; n++; p = p[1:]; Discard(1).
CaseIAC ==
    /\ pc = "switch"
    /\ SwitchCase(Head(buffered.buf)) = "IAC"
    /\ out' = Append(out, IAC)
    /\ n' = n + 1
    /\ room' = room - 1
    /\ \E o \in EscapeDiscard(buffered, wrapped) : Apply(o, "loop")
    /\ UNCHANGED <<stream, start, errSeen>>

\* case SB: the scan loop is entered; the SB byte itself is still buffered.
CaseSB ==
    /\ pc = "switch"
    /\ SwitchCase(Head(buffered.buf)) = "SB"
    /\ pc' = "sb"
    /\ UNCHANGED <<stream, start, wrapped, buffered, n, room, err, out, zout, errSeen>>

\* b2, err = r.buffered.ReadByte() in the scan loop, and the switch on b2.
\* A byte that is neither IAC nor OPT_COMPRESS2 goes round the loop.
SubReadByte ==
    /\ pc = "sb"
    /\ \E o \in ReadByte(buffered, wrapped) :
          Apply(o, CASE o.byte = IAC -> "sbpeek"
                     [] o.byte = OPT_COMPRESS2 -> "skipiac"
                     [] OTHER -> "sb")
    /\ UNCHANGED <<stream, start, n, room, out, errSeen>>

\* case IAC of the scan: Peek(1), then Discard(1) of a second IAC or of SE.
\* The break leaves the switch, not the for loop: the scan goes on.
SubPeek ==
    /\ pc = "sbpeek"
    /\ \E o \in Peek(buffered, wrapped) :
          IF o.err = "nil" /\ Head(o.b.buf) \in {IAC, SE}
          THEN Apply([o EXCEPT !.b.buf = Tail(@)], "sb")
          ELSE Apply(o, "sb")
    /\ UNCHANGED <<stream, start, n, room, out, errSeen>>

\* case OPT_COMPRESS2: the first ReadByte (commented IAC).
SkipIAC ==
    /\ pc = "skipiac"
    /\ \E o \in ReadByte(buffered, wrapped) : Apply(o, "skipse")
    /\ UNCHANGED <<stream, start, n, room, out, errSeen>>

\* case OPT_COMPRESS2: the second ReadByte (commented SE).
SkipSE ==
    /\ pc = "skipse"
    /\ \E o \in ReadByte(buffered, wrapped) : Apply(o, "newreader")
    /\ UNCHANGED <<stream, start, n, room, out, errSeen>>

\* A variant that installs the new reader whether or not NewReader failed.
ReplacedAlways(b, z) == [buf |-> <<>>, src |-> "zlib", zbuf |-> z.zbuf, zerr |-> z.err]

\* r.buffered after zlib.NewReader has returned z: on an error Read returns
\* before the assignment and r.buffered is the old reader.
Replaced(b, z) ==
    IF z.err # "nil"
    THEN b
    ELSE [buf |-> <<>>, src |-> "zlib", zbuf |-> z.zbuf, zerr |-> "nil"]

\* zReader, err := zlib.NewReader(r.wrapped); r.buffered = bufio.NewReader(zReader).
\* The break leaves the switch: the scan goes on, on the new source.
NewReader ==
    /\ pc = "newreader"
    /\ \E z \in ZlibNewReader(wrapped) :
          /\ wrapped' = z.w
          /\ buffered' = Replaced(buffered, z)
          /\ IF z.err # "nil" THEN Return(z.err) ELSE pc' = "sb" /\ err' = err
    /\ UNCHANGED <<stream, start, n, room, out, zout, errSeen>>

\* case SE: Discard(1).
CaseSE ==
    /\ pc = "switch"
    /\ SwitchCase(Head(buffered.buf)) = "SE"
    /\ \E o \in Discard(buffered, wrapped, 1) : Apply(o, "loop")
    /\ UNCHANGED <<stream, start, n, room, out, errSeen>>

\* case GA: Discard(1).
CaseGA ==
    /\ pc = "switch"
    /\ SwitchCase(Head(buffered.buf)) = "GA"
    /\ \E o \in Discard(buffered, wrapped, 1) : Apply(o, "loop")
    /\ UNCHANGED <<stream, start, n, room, out, errSeen>>

\* default: err = errCorrupted; return n, err.
CaseDefault ==
    /\ pc = "switch"
    /\ SwitchCase(Head(buffered.buf)) = "default"
    /\ Return("errCorrupted")
    /\ UNCHANGED <<stream, start, wrapped, buffered, n, room, out, zout, errSeen>>

Next ==
    \/ Call
    \/ LoopDone
    \/ LoopBreak
    \/ MainReadByte
    \/ MainPeek
    \/ CaseDoDont
    \/ CaseWillWont
    \/ PeekOption
    \/ HandleOption
    \/ DiscardOption
    \/ CaseIAC
    \/ CaseSB
    \/ SubReadByte
    \/ SubPeek
    \/ SkipIAC
    \/ SkipSE
    \/ NewReader
    \/ CaseSE
    \/ CaseGA
    \/ CaseDefault

Spec == Init /\ [][Next]_vars

\* The same decoder, fed by the second peer.
InitExt ==
    /\ stream \in StreamsExt
    /\ wrapped = [rd |-> stream, wr |-> <<>>, faults |-> MaxFaults]
    /\ buffered = [buf |-> <<>>, src |-> "raw", zbuf |-> <<>>, zerr |-> "nil"]
    /\ pc = "idle"
    /\ n = 0
    /\ room = 0
    /\ err = "none"
    /\ out = <<>>
    /\ zout = <<>>
    /\ errSeen = FALSE
    /\ start = 0

SpecExt == InitExt /\ [][Next]_vars

\* The same decoder, fed by the third peer.
InitCmd ==
    /\ stream \in StreamsCmd
    /\ wrapped = [rd |-> stream, wr |-> <<>>, faults |-> MaxFaults]
    /\ buffered = [buf |-> <<>>, src |-> "raw", zbuf |-> <<>>, zerr |-> "nil"]
    /\ pc = "idle"
    /\ n = 0
    /\ room = 0
    /\ err = "none"
    /\ out = <<>>
    /\ zout = <<>>
    /\ errSeen = FALSE
    /\ start = 0

SpecCmd == InitCmd /\ [][Next]_vars

(* ------------------------------------------------------------------ *)
(* The protocol, as the claims read it                                  *)
(* ------------------------------------------------------------------ *)
\* The bytes that may follow IAC.
Commands == {DO, DONT, WILL, WONT, IAC, SB, SE, GA}

\* TELNET escaping: every 255 is doubled.
RECURSIVE Escape(_)
Escape(s) ==
    IF s = <<>> THEN <<>>
    ELSE (IF Head(s) = 255 THEN <<255, 255>> ELSE <<Head(s)>>) \o Escape(Tail(s))

\* The inverse, on a stream of data bytes and 255 pairs.
RECURSIVE Collapse(_)
Collapse(s) ==
    IF s = <<>> THEN <<>>
    ELSE IF Head(s) = 255 /\ Len(s) >= 2 /\ s[2] = 255
         THEN <<255>> \o Collapse(Drop(s, 2))
         ELSE <<Head(s)>> \o Collapse(Tail(s))

\* The stream is escape(S) for some S.
IsEscaped(s) == Escape(Collapse(s)) = s

\* What is left of a stream after the sub-negotiation it starts in: the
\* bytes after the first 255 240, a 255 255 pair being payload.
RECURSIVE AfterSubneg(_)
AfterSubneg(s) ==
    IF Len(s) < 2 THEN <<>>
    ELSE IF s[1] = 255 /\ s[2] = 240 THEN Drop(s, 2)
    ELSE IF s[1] = 255 /\ s[2] = 255 THEN AfterSubneg(Drop(s, 2))
    ELSE AfterSubneg(Tail(s))

\* The sub-negotiation a stream starts in is terminated within it.
RECURSIVE SubnegEnds(_)
SubnegEnds(s) ==
    IF Len(s) < 2 THEN FALSE
    ELSE IF s[1] = 255 /\ s[2] = 240 THEN TRUE
    ELSE IF s[1] = 255 /\ s[2] = 255 THEN SubnegEnds(Drop(s, 2))
    ELSE SubnegEnds(Tail(s))

\* The reference decoding of a stream of the uncompressed protocol: data,
\* the payload bytes of its complete items in order; ok, the stream is a
\* sequence of complete, well-formed items.  Decoding stops at an item that
\* is cut short or is no command.
RECURSIVE Ref(_)
Ref(s) ==
    IF s = <<>> THEN [data |-> <<>>, ok |-> TRUE]
    ELSE IF Head(s) # 255
         THEN [data |-> <<Head(s)>> \o Ref(Tail(s)).data, ok |-> Ref(Tail(s)).ok]
    ELSE IF Len(s) = 1 THEN [data |-> <<>>, ok |-> FALSE]
    ELSE IF s[2] = 255
         THEN [data |-> <<255>> \o Ref(Drop(s, 2)).data, ok |-> Ref(Drop(s, 2)).ok]
    ELSE IF s[2] \in {251, 252, 253, 254}
         THEN IF Len(s) < 3 THEN [data |-> <<>>, ok |-> FALSE] ELSE Ref(Drop(s, 3))
    ELSE IF s[2] \in {240, 249} THEN Ref(Drop(s, 2))
    ELSE IF s[2] = 250
         THEN IF SubnegEnds(Drop(s, 2)) THEN Ref(AfterSubneg(Drop(s, 2)))
              ELSE [data |-> <<>>, ok |-> FALSE]
    ELSE [data |-> <<>>, ok |-> FALSE]

\* s is a subsequence of t: the bytes of s occur in t in the same order.
RECURSIVE IsSubseq(_, _)
IsSubseq(s, t) ==
    IF s = <<>> THEN TRUE
    ELSE IF t = <<>> THEN FALSE
    ELSE IF Head(s) = Head(t) THEN IsSubseq(Tail(s), Tail(t))
    ELSE IsSubseq(s, Tail(t))

\* The bytes of the stream the decoder has consumed from the raw source.
Consumed == Len(stream) - Len(wrapped.rd) - Len(buffered.buf)

\* No transport failure has happened.
NoFault == wrapped.faults = MaxFaults

\* The byte 86 occurs nowhere in the stream: no compression is triggered.
NoCompress == \A i \in 1..Len(stream) : stream[i] # 86

\* A call has returned the end of the stream.
AtEnd == pc = "idle" /\ err = "EOF"

(* ------------------------------------------------------------------ *)
(* C1: round trip of escaped data                                       *)
(* ------------------------------------------------------------------ *)
\* C1: when the stream is escape(S) and the transport does not fail, the
\* bytes delivered so far are always a prefix of S, a call fails only with
\* the end of the stream, nothing is written to the transport, and once a
\* call has returned the end of the stream the bytes delivered are exactly
\* S; for every chunking of the transport and every buffer size.
C1_RoundTrip ==
    (IsEscaped(stream) /\ NoFault) =>
        /\ IsPrefix(out, Collapse(stream))
        /\ err \in {"none", "nil", "EOF"}
        /\ wrapped.wr = <<>>
        /\ (AtEnd => out = Collapse(stream))

\* An escaped stream holding a 255 pair and a data byte has been decoded to
\* its end.
C1_Witness ==
    /\ IsEscaped(stream)
    /\ NoFault
    /\ AtEnd
    /\ Len(out) = 2
    /\ Len(stream) = 3
    /\ out = Collapse(stream)
    /\ \E i \in 1..2 : out[i] = 255

(* ------------------------------------------------------------------ *)
(* C3: the reply to an offer                                            *)
(* ------------------------------------------------------------------ *)
\* The reply the claim gives for an offer of option o.
ExpectedReply(o) == IF o = 86 THEN <<255, 253, 86>> ELSE <<255, 254, o>>

\* The stream starts with 255, WILL, o.
OfferFirst == Len(stream) >= 3 /\ stream[1] = 255 /\ stream[2] = 251

\* C3: for a stream that starts with 255, WILL, o and a transport that does
\* not fail: until the three bytes are consumed nothing is delivered and
\* the transport holds nothing or the whole reply; once they are consumed
\* exactly the three bytes 255, DO, 86 (o = 86) or 255, DONT, o (any other
\* o) have been written for them, and nothing was delivered for them.
C3_OptionReply ==
    (OfferFirst /\ NoFault) =>
        /\ (Consumed <= 3 => out = <<>> /\ wrapped.wr \in {<<>>, ExpectedReply(stream[3])})
        /\ (Consumed >= 3 => IsPrefix(ExpectedReply(stream[3]), wrapped.wr))
        /\ (Consumed = 3 /\ pc \in {"loop", "idle"} => wrapped.wr = ExpectedReply(stream[3]))

\* An offer of an option other than 86 has been consumed and declined.
C3_Witness ==
    /\ OfferFirst
    /\ NoFault
    /\ stream[3] # 86
    /\ Consumed = 3
    /\ pc = "idle"
    /\ wrapped.wr = <<255, 254, stream[3]>>
    /\ out = <<>>

(* ------------------------------------------------------------------ *)
(* C4: a byte after IAC that is no command                              *)
(* ------------------------------------------------------------------ *)
\* C4: in the main loop, consuming the 255 marker produces no output, and
\* when the byte peeked after it is none of DO, DONT, WILL, WONT, IAC, SB,
\* SE, GA the call returns the corrupted-stream error in that step, with
\* no output byte produced, nothing written to the transport and the byte
\* left unconsumed.
C4_Corrupted ==
    [][ /\ (pc = "loop" /\ pc' = "peek") => (out' = out /\ n' = n)
        /\ (pc = "switch" /\ Head(buffered.buf) \notin Commands) =>
              /\ pc' = "idle"
              /\ err' = "errCorrupted"
              /\ out' = out
              /\ n' = n
              /\ wrapped' = wrapped
              /\ buffered' = buffered ]_vars

\* A call has returned the corrupted-stream error after delivering a byte.
C4_Witness ==
    /\ pc = "idle"
    /\ err = "errCorrupted"
    /\ n = 1
    /\ out = <<10>>
    /\ buffered.buf # <<>>
    /\ Head(buffered.buf) \notin Commands
    /\ wrapped.wr = <<>>

(* ------------------------------------------------------------------ *)
(* C10: a successful call delivers at least one byte                    *)
(* ------------------------------------------------------------------ *)
\* C10: a call with a non-empty buffer (n + room is its length) that has
\* returned without an error has written at least one byte.
C10_AtLeastOne ==
    (pc = "idle" /\ err = "nil" /\ n + room >= 1) => n >= 1

\* The first call that did anything consumed a command sequence, went on
\* pulling and returned one byte without an error.
C10_Witness ==
    /\ pc = "idle"
    /\ err = "nil"
    /\ ~errSeen
    /\ n = 1
    /\ out = <<10>>
    /\ Consumed = 3
    /\ stream[1] = 255

(* ------------------------------------------------------------------ *)
(* C2: a sub-negotiation is swallowed, the data after it is not         *)
(* ------------------------------------------------------------------ *)
\* Short runs of ordinary data bytes, and sub-negotiation bodies (type and
\* payload) holding neither 255 nor 86.
DataSeqs == UNION { [1..k -> {10, 20}] : k \in 0..2 }
Payloads == UNION { [1..k -> {1, 2}] : k \in 1..2 }

\* C2: for a stream D1, 255, 250, payload, 255, 240, D2 and a transport that
\* does not fail, nothing is written to the transport, what is delivered is
\* a prefix of D1 D2, and once a call has returned the end of the stream
\* exactly D1 D2 has been delivered.
C2_SubnegSwallowed ==
    \A d1 \in DataSeqs, d2 \in DataSeqs, pl \in Payloads :
        (stream = d1 \o <<255, 250>> \o pl \o <<255, 240>> \o d2 /\ NoFault) =>
            /\ wrapped.wr = <<>>
            /\ IsPrefix(out, d1 \o d2)
            /\ (AtEnd => out = d1 \o d2)

(* ------------------------------------------------------------------ *)
(* C5: no pull from the transport once a byte has been produced         *)
(* ------------------------------------------------------------------ *)
\* C5: within a call that has produced at least one byte (n > 0), no step
\* takes bytes from the transport.
C5_NoPullAfterFirstByte ==
    [][(pc # "idle" /\ n > 0) => wrapped'.rd = wrapped.rd]_vars

(* ------------------------------------------------------------------ *)
(* C6: only payload is delivered                                        *)
(* ------------------------------------------------------------------ *)
\* C6: for a well-formed stream of the uncompressed protocol, whatever the
\* transport does and whatever earlier calls returned, the bytes delivered
\* are bytes of the stream's payload, in order: no command byte, option
\* byte or sub-negotiation byte is among them.
C6_OutputPurity ==
    (Ref(stream).ok /\ NoCompress) => IsSubseq(out, Ref(stream).data)

(* ------------------------------------------------------------------ *)
(* C7: decoding goes on after the hand-off                              *)
(* ------------------------------------------------------------------ *)
\* C7: on a transport that does not fail, once the source is the
\* decompressing stream, everything has been consumed and a call has
\* returned its end, the payload of what the decompressing stream produced
\* has been delivered, in order, as the last bytes of the output.
C7_HandOffDelivers ==
    ( /\ pc = "idle"
      /\ err \notin {"none", "nil"}
      /\ NoFault
      /\ buffered.src = "zlib"
      /\ buffered.buf = <<>>
      /\ buffered.zbuf = <<>>
      /\ wrapped.rd = <<>> ) => IsSuffix(Ref(zout).data, out)

(* ------------------------------------------------------------------ *)
(* C8: no byte is lost across the swap                                  *)
(* ------------------------------------------------------------------ *)
\* C8: in the step that replaces the raw source by the decompressing
\* stream, the old buffered source holds no byte read ahead: the bytes of
\* the transport after the terminator are then exactly those the
\* decompressor reads, and none is dropped with the old buffer.
C8_NoLossAcrossSwap ==
    [][(buffered.src = "raw" /\ buffered'.src = "zlib") => buffered.buf = <<>>]_vars

(* ------------------------------------------------------------------ *)
(* C9: an error comes with the bytes decoded so far                     *)
(* ------------------------------------------------------------------ *)
\* C9: when a call is the first to return an error (on a stream that
\* triggers no compression), the bytes delivered are the decoded payload
\* of the input consumed before the failure.
C9_ErrorKeepsDecoded ==
    (pc = "idle" /\ err \notin {"none", "nil"} /\ ~errSeen /\ NoCompress) =>
        out = Ref(Take(stream, Consumed)).data

(* ------------------------------------------------------------------ *)
(* C11: the scan ends at the terminator                                 *)
(* ------------------------------------------------------------------ *)
\* The byte the source yields next when it does not fail (-1: none left).
SourceHead ==
    IF buffered.buf # <<>> THEN Head(buffered.buf)
    ELSE IF buffered.src = "raw"
         THEN (IF wrapped.rd # <<>> THEN Head(wrapped.rd) ELSE -1)
    ELSE IF buffered.zbuf # <<>> THEN Inflate(Head(buffered.zbuf))
    ELSE IF wrapped.rd # <<>> THEN Inflate(Head(wrapped.rd))
    ELSE -1

\* C11: when the scan of a sub-negotiation has read 255 and the next byte
\* of the source is SE, the step that consumes it ends the scan: unless the
\* source fails, control is back at the top of the main loop.
C11_ScanEndsAtTerminator ==
    [][(pc = "sbpeek" /\ SourceHead = SE /\ pc' # "idle") => pc' = "loop"]_vars

(* ------------------------------------------------------------------ *)
(* C12: the source is replaced once, at the terminator                  *)
(* ------------------------------------------------------------------ *)
\* The stream holds exactly one compression announcement 255, 250, 86.
OneAnnouncement ==
    Cardinality({ i \in 1..(Len(stream) - 2) :
                    stream[i] = IAC /\ stream[i + 1] = SB /\ stream[i + 2] = 86 }) = 1

\* C12: on a stream with one compression announcement, a step that
\* replaces the source is taken with the raw source still in place (it is
\* the first replacement), and the two bytes consumed just before it are
\* 255, 240; so no byte of the decompressed stream causes a replacement.
C12_OneSwapAtTerminator ==
    [][(OneAnnouncement /\ pc = "newreader" /\ pc' = "sb") =>
          /\ buffered.src = "raw"
          /\ Consumed >= 2
          /\ stream[Consumed - 1] = 255
          /\ stream[Consumed] = 240 ]_vars

(* ------------------------------------------------------------------ *)
(* C13: only the type byte 86 triggers the hand-off                     *)
(* ------------------------------------------------------------------ *)
\* Where the last 255, 250 of s starts (0: there is none).
LastSB(s) ==
    LET I == { i \in 1..(Len(s) - 1) : s[i] = 255 /\ s[i + 1] = 250 }
    IN  IF I = {} THEN 0 ELSE CHOOSE i \in I : \A j \in I : j <= i

\* The bytes of s after its last 255, 250: the type byte and what follows.
ScanBody(s) == Drop(s, LastSB(s) + 1)

\* C13: when the scan, on the raw source and inside a sub-negotiation whose
\* terminator has not been consumed, takes the compression branch for the
\* byte it has just read, that byte is the type byte: the bytes consumed
\* since 255, 250 are the single byte 86.
C13_TriggerOnlyAsType ==
    [][ ( /\ pc = "sb"
          /\ pc' = "skipiac"
          /\ buffered.src = "raw"
          /\ LastSB(Take(stream, Consumed')) > 0
          /\ ~SubnegEnds(ScanBody(Take(stream, Consumed'))) ) =>
        ScanBody(Take(stream, Consumed')) = <<86>> ]_vars

(* ------------------------------------------------------------------ *)
(* C14: DO, DONT, SE and GA are silent                                  *)
(* ------------------------------------------------------------------ *)
\* The stream is made of data bytes, 255 pairs and the sequences
\* 255 DO o, 255 DONT o, 255 SE and 255 GA, each of them complete.
RECURSIVE Silent(_)
Silent(s) ==
    IF s = <<>> THEN TRUE
    ELSE IF Head(s) # 255 THEN Silent(Tail(s))
    ELSE IF Len(s) = 1 THEN FALSE
    ELSE IF s[2] \in {255, 240, 249} THEN Silent(Drop(s, 2))
    ELSE IF s[2] \in {253, 254} THEN Len(s) >= 3 /\ Silent(Drop(s, 3))
    ELSE FALSE

\* C14: on a stream of data and of the sequences 255 DO o, 255 DONT o,
\* 255 SE, 255 GA (o any byte, 255 and 86 among them) and a transport that
\* does not fail: nothing is ever written to the transport, the source is
\* never replaced, at the top of every iteration of the main loop the bytes
\* consumed are whole items (three bytes for DO and DONT, two for SE and
\* GA) and the bytes delivered are exactly their data, so the byte after a
\* sequence is decoded as the start of the next item; at the end of the
\* stream the data of the whole stream has been delivered.
C14_SilentCommands ==
    (Silent(stream) /\ NoFault) =>
        /\ wrapped.wr = <<>>
        /\ buffered.src = "raw"
        /\ IsPrefix(out, Ref(stream).data)
        /\ (pc = "loop" => /\ Ref(Take(stream, Consumed)).ok
                           /\ out = Ref(Take(stream, Consumed)).data)
        /\ (AtEnd => out = Ref(stream).data)

\* 255, DONT, 255 followed by a data byte has been decoded to the end: the
\* option byte 255 was not read as a marker, and the data byte after the
\* sequence was delivered.
C14_Witness ==
    /\ Len(stream) = 4
    /\ Take(stream, 3) = <<255, 254, 255>>
    /\ stream[4] # 255
    /\ NoFault
    /\ AtEnd
    /\ out = <<stream[4]>>
    /\ wrapped.wr = <<>>
    /\ buffered.src = "raw"

(* ------------------------------------------------------------------ *)
(* C15: the bytes written are the replies, in stream order              *)
(* ------------------------------------------------------------------ *)
\* The replies the claim gives for a stream: one per complete offer
\* 255 WILL o or 255 WONT o, in order.  A byte after 255 that is no command
\* ends a call; the next call starts with that byte as data.
RECURSIVE Replies(_)
Replies(s) ==
    IF s = <<>> THEN <<>>
    ELSE IF Head(s) # 255 THEN Replies(Tail(s))
    ELSE IF Len(s) = 1 THEN <<>>
    ELSE IF s[2] \in {251, 252}
         THEN IF Len(s) < 3 THEN <<>> ELSE ExpectedReply(s[3]) \o Replies(Drop(s, 3))
    ELSE IF s[2] \in {253, 254}
         THEN IF Len(s) < 3 THEN <<>> ELSE Replies(Drop(s, 3))
    ELSE IF s[2] \in {255, 240, 249} THEN Replies(Drop(s, 2))
    ELSE IF s[2] = 250
         THEN IF SubnegEnds(Drop(s, 2)) THEN Replies(AfterSubneg(Drop(s, 2))) ELSE <<>>
    ELSE Replies(Tail(s))

\* The stream holds no compression announcement 255, 250, 86.
NoAnnouncement ==
    \A i \in 1..(Len(stream) - 2) :
        ~(stream[i] = IAC /\ stream[i + 1] = SB /\ stream[i + 2] = 86)

\* The bytes of the stream whose replies are due: those consumed, and the
\* option byte of the offer being answered once its reply is written.
Answered == Take(stream, Consumed + (IF pc = "optdone" THEN 1 ELSE 0))

\* C15: on a stream without compression announcement and a transport that
\* does not fail, the bytes written to the transport are at every moment
\* the replies to the offers consumed so far, in stream order: a reply is
\* there before its option byte is consumed, and nothing else is written.
C15_RepliesInOrder ==
    (NoFault /\ NoAnnouncement) => wrapped.wr = Replies(Answered)

(* ------------------------------------------------------------------ *)
(* C16: the early return at the top of an iteration                     *)
(* ------------------------------------------------------------------ *)
\* The bytes of the stream the call in progress (or the last call) has
\* consumed.
CallBytes == SubSeq(stream, start + 1, Consumed)

\* C16: at the top of an iteration of the main loop with room left, a byte
\* already produced (n > 0) and nothing buffered in the source, the next
\* step is the return of (n, nil): nothing is pulled from the source or
\* the transport, nothing more is delivered, and (on a stream that
\* triggers no compression) the bytes the call has consumed are whole
\* items: data bytes and complete command sequences.
C16_EarlyReturn ==
    [][ (pc = "loop" /\ room > 0 /\ n > 0 /\ Buffered(buffered) = 0) =>
          /\ pc' = "idle"
          /\ err' = "nil"
          /\ n' = n
          /\ out' = out
          /\ wrapped' = wrapped
          /\ buffered' = buffered
          /\ (NoCompress => Ref(CallBytes).ok) ]_vars

\* A call has returned early, without an error and with room left in its
\* buffer, after a data byte and a command sequence, leaving bytes on the
\* transport that it did not pull.
C16_Witness ==
    /\ pc = "idle"
    /\ err = "nil"
    /\ n > 0
    /\ room > 0
    /\ Buffered(buffered) = 0
    /\ wrapped.rd # <<>>
    /\ NoCompress
    /\ Len(CallBytes) > n
    /\ Ref(CallBytes).ok

(* ------------------------------------------------------------------ *)
(* C17: the decompressing stream cannot be started                      *)
(* ------------------------------------------------------------------ *)
\* The failures of zlib.NewReader: of the header check, and of the reads
\* of the two header bytes.
StartFailures == {"ErrHeader", "ErrDictionary", "ErrUnexpectedEOF", "ErrIO"}

\* C17: in the step that calls the factory, when fewer than two bytes are
\* left on the transport or the next two fail the header check, the call
\* returns; and whenever the call returns in that step, it returns the
\* factory's failure with n and the output as they were, and the source is
\* the one in place before: it has not been replaced.
C17_StartFailure ==
    [][ pc = "newreader" =>
          /\ ( (Len(wrapped.rd) < 2 \/ HeaderError(wrapped.rd[1], wrapped.rd[2]) # "nil")
               => pc' = "idle" )
          /\ ( pc' = "idle" =>
                 /\ err' \in StartFailures
                 /\ n' = n
                 /\ out' = out
                 /\ buffered' = buffered ) ]_vars

\* After a data byte and an announcement with nothing behind it, the call
\* has returned the factory's failure with n = 1, the raw source in place.
C17_Witness ==
    /\ pc = "idle"
    /\ err = "ErrUnexpectedEOF"
    /\ buffered.src = "raw"
    /\ n = 1
    /\ out = <<10>>
    /\ stream = <<10, 255, 250, 86, 255, 240>>

(* ------------------------------------------------------------------ *)
(* C18: the caller's buffer is never overrun                            *)
(* ------------------------------------------------------------------ *)
\* n bytes are written and room are free: n + room is the buffer's length.
BufferBound == n >= 0 /\ room >= 0 /\ n + room <= MaxBuf

\* C18: n stays within 0 and the length of the buffer; a step that writes
\* a byte writes one byte, into a free slot, and counts it in n, so the
\* bytes written are those at the positions below n; an escaped pair met
\* with one slot left fills it; with no slot left (a full buffer, or one
\* of length zero) the next step is the return of (n, nil), and it
\* consumes nothing from the source and writes nothing to the transport.
C18_BufferBound ==
    [][ /\ BufferBound
        /\ BufferBound'
        /\ (out' # out =>
              /\ room >= 1
              /\ Len(out') = Len(out) + 1
              /\ Take(out', Len(out)) = out
              /\ n' = n + 1
              /\ room' = room - 1)
        /\ (pc = "switch" /\ Head(buffered.buf) = IAC /\ room = 1 =>
              /\ out' = Append(out, 255)
              /\ room' = 0
              /\ pc' = "loop")
        /\ (pc = "loop" /\ room = 0 =>
              /\ pc' = "idle"
              /\ err' = "nil"
              /\ n' = n
              /\ out' = out
              /\ wrapped' = wrapped
              /\ buffered' = buffered) ]_vars

\* A call with a buffer of two bytes has returned it full: a data byte,
\* then the 255 of an escaped pair in the last slot.
C18_Witness ==
    /\ pc = "idle"
    /\ err = "nil"
    /\ n = 2
    /\ room = 0
    /\ out = <<10, 255>>
    /\ Consumed = 3

(* ------------------------------------------------------------------ *)
(* C19: a successful call ends between two items                        *)
(* ------------------------------------------------------------------ *)
\* C19: a call returns without an error only from the top of the main
\* loop, never between a 255 marker and the end of its command; and (on a
\* stream that triggers no compression) the bytes the call has consumed
\* are then whole items, data bytes and complete command sequences,
\* whatever the earlier calls returned.
C19_BoundaryOnSuccess ==
    [][ (pc # "idle" /\ pc' = "idle" /\ err' = "nil") =>
          /\ pc = "loop"
          /\ (NoCompress => Ref(CallBytes).ok /\ CallBytes' = CallBytes) ]_vars

\* After a call that failed, a call has returned without an error having
\* consumed a data byte and a whole three-byte command sequence.
C19_Witness ==
    /\ pc = "idle"
    /\ err = "nil"
    /\ errSeen
    /\ NoCompress
    /\ start > 0
    /\ n = 1
    /\ Len(CallBytes) = 4
    /\ CallBytes[2] = 255
    /\ Ref(CallBytes).ok

(* ------------------------------------------------------------------ *)
(* C20: what a failed command has consumed                              *)
(* ------------------------------------------------------------------ *)
\* The errors of a command that fails after its marker: a byte that is no
\* command, and a reply that could not be written.
CommandFailures == {"errCorrupted", "ErrWrite"}

\* A call has returned a command failure, and the byte it left is the
\* first one buffered: after the corrupted-stream error a byte that is no
\* command, with the marker 255 the last byte consumed; after a failed
\* write the option byte, with 255 and WILL or WONT the last two consumed.
LeftUnconsumed ==
    /\ buffered.buf # <<>>
    /\ err = "errCorrupted" => Head(buffered.buf) \notin Commands
    /\ NoCompress =>
          /\ Head(buffered.buf) = stream[Consumed + 1]
          /\ err = "errCorrupted" => stream[Consumed] = 255
          /\ err = "ErrWrite" =>
                /\ Consumed >= 2
                /\ stream[Consumed - 1] = 255
                /\ stream[Consumed] \in {251, 252}

\* C20: a call that returns one of the two command failures leaves the
\* source as it was before the failing step, with the offending byte or
\* the option byte unconsumed; the next call starts on the same source,
\* and the first byte it takes is that byte.
C20_FailedCommand ==
    [][ /\ (pc # "idle" /\ pc' = "idle" /\ err' \in CommandFailures) =>
              /\ buffered' = buffered
              /\ wrapped'.rd = wrapped.rd
              /\ LeftUnconsumed'
        /\ (pc = "idle" /\ err \in CommandFailures) =>
              /\ LeftUnconsumed
              /\ buffered' = buffered
              /\ wrapped' = wrapped
        /\ (pc = "loop" /\ n = 0 /\ room > 0 /\ buffered.buf # <<>>) =>
              /\ buffered'.buf = Tail(buffered.buf)
              /\ wrapped' = wrapped
              /\ Head(buffered.buf) # 255 => out' = Append(out, Head(buffered.buf)) ]_vars

\* The reply to 255, WILL, 1 could not be written; the next call has taken
\* the option byte first and delivered it.
C20_Witness ==
    /\ stream = <<255, 251, 1>>
    /\ errSeen
    /\ wrapped.wr = <<>>
    /\ wrapped.faults < MaxFaults
    /\ pc = "idle"
    /\ err = "nil"
    /\ start = 2
    /\ Consumed = 3
    /\ out = <<1>>

====
